---- MODULE Spec2Model ----
\* Model of project3.py: the baselight/xytech reconciliation, the merge of
\* annotated frames into ranges, the timecode conversion and the report loop
\* that classifies every stored record against the video's frame count.
\*
\* Python strings are sequences of one-character strings, so that formatting
\* (str, f-strings) and parsing (isdigit, int, split, re.sub) are modelled by
\* what they do to the characters.
EXTENDS Integers, Sequences, FiniteSets

VARIABLES
    pc,                \* position of the program: "start", "ingested", "ingest_failed",
                       \* "report", "saved", "aborted", "probe_failed"
    baselight_collection, \* db['baselight']: the stored records, in insertion order
    location_map,      \* the dict process_xytech_file returned to main
    in_xytech,         \* SpecMerge: the lines of the xytech file to read
    in_lines,          \* SpecMerge: the lines of the baselight file to read
    frames_locations,  \* the dict frames_locations of the last ingest
    emitted,           \* the records inserted by the last process_baselight_file
    probe,             \* <<>> until ffprobe ran, then <<what it printed>>
    total_frames,      \* <<>> until computed, then <<int(video_length * fps)>>
    entries,           \* list(baselight_collection.find({})) of the report
    idx,               \* 1-based position of the report loop in entries
    ws_frames_to_fix,  \* data rows appended to the sheet "Frames to Fix"
    ws_not_used,       \* data rows appended to the sheet "Frames Not Used"
    thumbnails,        \* the generate_thumbnail calls made, with their outcome
    snippets,          \* the snippet ffmpeg calls made, with their outcome
    tc_frame, tc_fps, tc_out  \* argument and result of a frame_to_timecode call

vars == <<pc, baselight_collection, location_map, in_xytech, in_lines,
          frames_locations, emitted, probe, total_frames, entries, idx, ws_frames_to_fix, ws_not_used,
          thumbnails, snippets, tc_frame, tc_fps, tc_out>>

ingest_vars == <<location_map, frames_locations, emitted>>
input_vars == <<in_xytech, in_lines>>
report_vars == <<probe, total_frames, entries, idx, ws_frames_to_fix, ws_not_used,
                 thumbnails, snippets>>
tc_vars == <<tc_frame, tc_fps, tc_out>>

-----------------------------------------------------------------------------
\* Bounds of the model.

\* Lines of a baselight file read by an ingest run of Spec.
MaxLines == 2
\* Lines of the baselight file read by the single run of SpecMerge.
MaxMergeLines == 3
\* Records the store may hold (bounds the number of ingest runs that add records).
MaxStore == 3
\* frame_to_timecode is applied to every frame 0..MaxTcFrame (and to TcFrames).
MaxTcFrame == 130

-----------------------------------------------------------------------------
\* Strings.

\* Characters: the ASCII digits are the decimal digits a string of this model
\* can hold; the superscript digits are digits to str.isdigit() but not decimal
\* digits, so int() and the regular expression \d reject them. (Decimal digits
\* of other scripts, which int() and \d accept, cannot be written in a string
\* here.)
DigitChars == <<"0", "1", "2", "3", "4", "5", "6", "7", "8", "9">>
SuperscriptDigits == {"¹", "²", "³"}

\* c.isdecimal(): what int() and \d accept
DecimalChars == { DigitChars[d] : d \in 1..10 }
IsDecimalChar(c) == c \in DecimalChars

\* c.isdigit()
IsDigitChar(c) == IsDecimalChar(c) \/ c \in SuperscriptDigits

DigitVal(c) == (CHOOSE d \in 1..10 : DigitChars[d] = c) - 1

\* str.isdigit(): non-empty and every character a digit.
isdigit(s) == Len(s) > 0 /\ \A k \in 1..Len(s) : IsDigitChar(s[k])

\* sys.get_int_max_str_digits(): the longest string int() converts (the
\* interpreter's default; leading zeros count)
int_max_str_digits == 4300

\* int(s) of a token that passed isdigit() raises ValueError unless every
\* character is a decimal digit and the token is no longer than the
\* interpreter's limit
int_raises(s) ==
    \/ Len(s) > int_max_str_digits
    \/ \E k \in 1..Len(s) : ~IsDecimalChar(s[k])

\* int(s) of a string of decimal digits (leading zeros allowed).
RECURSIVE to_int(_)
to_int(s) ==
    IF Len(s) = 0 THEN 0
    ELSE to_int(SubSeq(s, 1, Len(s) - 1)) * 10 + DigitVal(s[Len(s)])

\* str(n) of a non-negative integer.
RECURSIVE to_str(_)
to_str(n) ==
    IF n < 10 THEN <<DigitChars[n + 1]>>
    ELSE to_str(n \div 10) \o <<DigitChars[(n % 10) + 1]>>

\* s.startswith(p)
startswith(s, p) == Len(s) >= Len(p) /\ SubSeq(s, 1, Len(p)) = p

\* Number of digit characters of s from position k on (the greedy \d+).
RECURSIVE DigitRun(_, _)
DigitRun(s, k) ==
    IF k <= Len(s) /\ IsDecimalChar(s[k]) THEN 1 + DigitRun(s, k + 1) ELSE 0

BaselightPrefix ==
    <<"/", "b", "a", "s", "e", "l", "i", "g", "h", "t",
      "f", "i", "l", "e", "s", "y", "s", "t", "e", "m", "1">>
HpsansPrefix == <<"/", "h", "p", "s", "a", "n", "s">>
ProductionPart == <<"/", "p", "r", "o", "d", "u", "c", "t", "i", "o", "n">>

\* re.sub(r'^/baselightfilesystem1', '', location_part)
strip_baselight(s) ==
    IF startswith(s, BaselightPrefix)
    THEN SubSeq(s, Len(BaselightPrefix) + 1, Len(s))
    ELSE s

\* re.sub(r'^/hpsans\d+/production', '', line)
strip_xytech(s) ==
    IF startswith(s, HpsansPrefix)
    THEN LET n == DigitRun(s, Len(HpsansPrefix) + 1)
             rest == SubSeq(s, Len(HpsansPrefix) + n + 1, Len(s))
         IN IF n >= 1 /\ startswith(rest, ProductionPart)
            THEN SubSeq(rest, Len(ProductionPart) + 1, Len(rest))
            ELSE s
    ELSE s

-----------------------------------------------------------------------------
\* process_xytech_file: the location map built from the lines of the manifest,
\* last key wins. A line is the result of line.strip(). The producer, operator
\* and job values go to db['xytech'] and from there only into the header rows of
\* the report; they are not part of the state.

EmptyMap == [k \in {} |-> <<>>]

MapSet(m, k, v) == [x \in (DOMAIN m) \cup {k} |-> IF x = k THEN v ELSE m[x]]

ProducerLabel == <<"P", "r", "o", "d", "u", "c", "e", "r", ":">>
OperatorLabel == <<"O", "p", "e", "r", "a", "t", "o", "r", ":">>
JobLabel == <<"J", "o", "b", ":">>

\* the line is taken by one of the three startswith branches
is_label_line(line) ==
    \/ startswith(line, ProducerLabel)
    \/ startswith(line, OperatorLabel)
    \/ startswith(line, JobLabel)

RECURSIVE location_map_upto(_, _)
location_map_upto(lines, n) ==
    IF n = 0 THEN EmptyMap
    ELSE LET m == location_map_upto(lines, n - 1)
             line == lines[n]
         IN IF ~is_label_line(line) /\ Len(line) > 0
            THEN MapSet(m, strip_xytech(line), line)
            ELSE m

process_xytech_file(lines) == location_map_upto(lines, Len(lines))

-----------------------------------------------------------------------------
\* process_baselight_file. A line is the result of line.strip().split():
\* <<location_part, frame token, ...>>, and <<>> for a blank line.
\* The loops over the lines carry st = [raised, fl]: fl is frames_locations so
\* far, raised says that int(frame) raised ValueError, which ends the function
\* (and main) before anything is inserted.

\* the loop over frame_numbers of one line (tokens k..)
RECURSIVE add_frames(_, _, _, _)
add_frames(st, parts, k, location_fixed) ==
    IF st.raised \/ k > Len(parts) THEN st
    ELSE add_frames(
             IF isdigit(parts[k])
             THEN IF int_raises(parts[k])
                  THEN [raised |-> TRUE, fl |-> st.fl]
                  ELSE [raised |-> FALSE,
                        fl |-> MapSet(st.fl, to_int(parts[k]), location_fixed)]
             ELSE st,
             parts, k + 1, location_fixed)

\* the body of the loop over the lines, for one line
read_line_as_unchecked(st, parts, lmap) ==
    IF st.raised \/ Len(parts) = 0 THEN st
    ELSE LET stripped_location == strip_baselight(parts[1])
         IN add_frames(st, parts, 2,
                IF stripped_location \in DOMAIN lmap
                THEN lmap[stripped_location] ELSE parts[1])

read_line(st, parts, lmap) ==
    IF st.raised \/ Len(parts) = 0 THEN st
    ELSE LET stripped_location == strip_baselight(parts[1])
         IN IF stripped_location \in DOMAIN lmap
            THEN add_frames(st, parts, 2, lmap[stripped_location])
            ELSE st

RECURSIVE read_lines(_, _, _)
read_lines(lines, n, lmap) ==
    IF n = 0 THEN [raised |-> FALSE, fl |-> EmptyMap]
    ELSE read_line(read_lines(lines, n - 1, lmap), lines[n], lmap)

\* sorted(frames_locations.items()): pairs <<frame, location>>, frame ascending
RECURSIVE sorted_items(_)
sorted_items(fl) ==
    IF DOMAIN fl = {} THEN <<>>
    ELSE LET lo == CHOOSE f \in DOMAIN fl : \A g \in DOMAIN fl : f <= g
         IN <<<<lo, fl[lo]>>>> \o sorted_items([f \in (DOMAIN fl) \ {lo} |-> fl[f]])

\* the inner while loop: the index i at which the run that starts at i ends
extend_run_as_no_merge(frames_sorted, i, end_frame, location) == i

RECURSIVE extend_run_as_over_gap(_, _, _, _)
extend_run_as_over_gap(frames_sorted, i, end_frame, location) ==
    IF i + 1 <= Len(frames_sorted)
       /\ frames_sorted[i + 1][1] <= end_frame + 2
       /\ frames_sorted[i + 1][2] = location
    THEN extend_run_as_over_gap(frames_sorted, i + 1, frames_sorted[i + 1][1], location)
    ELSE i

RECURSIVE extend_run(_, _, _, _)
extend_run(frames_sorted, i, end_frame, location) ==
    IF i + 1 <= Len(frames_sorted)
       /\ frames_sorted[i + 1][1] = end_frame + 1
       /\ frames_sorted[i + 1][2] = location
    THEN extend_run(frames_sorted, i + 1, frames_sorted[i + 1][1], location)
    ELSE i

\* the document inserted for a run start_frame..end_frame
frame_record(location, start_frame, end_frame) ==
    IF start_frame = end_frame
    THEN [location |-> location, frame |-> to_str(start_frame)]
    ELSE [location |-> location,
          frame |-> to_str(start_frame) \o <<"-">> \o to_str(end_frame)]

\* the outer while loop from index i on: the records inserted, in order
RECURSIVE merge_from(_, _)
merge_from(frames_sorted, i) ==
    IF i > Len(frames_sorted) THEN <<>>
    ELSE LET start_frame == frames_sorted[i][1]
             location == frames_sorted[i][2]
             j == extend_run(frames_sorted, i, start_frame, location)
             end_frame == frames_sorted[j][1]
         IN <<frame_record(location, start_frame, end_frame)>>
            \o merge_from(frames_sorted, j + 1)

\* process_baselight_file(baselight_filename, location_map): whether it raised,
\* and the records it inserts into the store, in insertion order (none when it
\* raised: the inserts come after the loop over the lines)
process_baselight_file(lines, lmap) ==
    LET st == read_lines(lines, Len(lines), lmap)
    IN IF st.raised
       THEN [raised |-> TRUE, records |-> <<>>]
       ELSE [raised |-> FALSE, records |-> merge_from(sorted_items(st.fl), 1)]

-----------------------------------------------------------------------------
\* The report: filter_and_write_xls_and_snippets.

DefaultFps == 24

\* get_video_length: float(result.stdout.strip()) raises when ffprobe printed
\* nothing that float() reads; otherwise the duration. A finite duration is a
\* number of 64ths of a second (ffprobe's six decimals print every such value
\* exactly, and its floating-point product with an integer fps is exact).
get_video_length_as_zero(out) ==
    IF out.kind = "not_a_float"
    THEN [raised |-> FALSE, finite |-> TRUE, sixty_fourths |-> 0]
    ELSE [raised |-> FALSE, finite |-> out.kind = "number",
          sixty_fourths |-> out.sixty_fourths]

get_video_length(out) ==
    IF out.kind = "not_a_float"
    THEN [raised |-> TRUE, finite |-> FALSE, sixty_fourths |-> 0]
    ELSE [raised |-> FALSE, finite |-> out.kind = "number",
          sixty_fourths |-> out.sixty_fourths]

\* int(x) of the quotient a/b, b > 0: truncation toward zero
int_of_quotient(a, b) == IF a >= 0 THEN a \div b ELSE -((-a) \div b)

\* int(video_length_seconds * fps) for a finite duration (int() of nan or inf
\* raises, see StartReport)
total_frames_of(video_length, fps) ==
    int_of_quotient(video_length.sixty_fourths * fps, 64)

\* f"{n:02}"
pad2(n) == IF n < 10 THEN <<"0">> \o to_str(n) ELSE to_str(n)

frame_to_timecode_as_no_wrap(frame, fps) ==
    LET hours == frame \div (fps * 3600)
        minutes == (frame \div (fps * 60)) % 60
        seconds == frame \div fps
        frames == frame % fps
    IN pad2(hours) \o <<":">> \o pad2(minutes) \o <<":">> \o pad2(seconds)
       \o <<":">> \o pad2(frames)

frame_to_timecode(frame, fps) ==
    LET hours == frame \div (fps * 3600)
        minutes == (frame \div (fps * 60)) % 60
        seconds == (frame \div fps) % 60
        frames == frame % fps
    IN pad2(hours) \o <<":">> \o pad2(minutes) \o <<":">> \o pad2(seconds)
       \o <<":">> \o pad2(frames)

\* sep in s
contains(s, sep) == \E k \in 1..Len(s) : s[k] = sep

\* s.split(sep) for a one-character separator
RECURSIVE split(_, _)
split(s, sep) ==
    IF ~contains(s, sep) THEN <<s>>
    ELSE LET k == CHOOSE k \in 1..Len(s) :
                      s[k] = sep /\ \A j \in 1..(k - 1) : s[j] # sep
         IN <<SubSeq(s, 1, k - 1)>> \o split(SubSeq(s, k + 1, Len(s)), sep)

\* start, end = map(int, frame_data.split('-'))
range_start(frame_data) == to_int(split(frame_data, "-")[1])
range_end(frame_data) == to_int(split(frame_data, "-")[2])

\* One iteration of the loop over entries, up to the sheet the row goes to:
\* the row appended to "Frames to Fix" (with its artifacts requested) or to
\* "Frames Not Used".
entry_rows_as_start_only(entry, total, fps) ==
    LET frame_data == entry.frame
        location == entry.location
    IN IF contains(frame_data, "-")
       THEN LET start == range_start(frame_data)
                end == range_end(frame_data)
                timecode == frame_to_timecode(start, fps) \o <<" ", "-", " ">>
                            \o frame_to_timecode(end, fps)
            IN IF start <= total
               THEN [fix |-> <<<<location, frame_data, timecode>>>>, not_used |-> <<>>]
               ELSE [fix |-> <<>>, not_used |-> <<<<location, frame_data, timecode>>>>]
       ELSE [fix |-> <<>>,
             not_used |-> <<<<location, frame_data,
                              frame_to_timecode(to_int(frame_data), fps)>>>>]

entry_rows_as_drop_late_single(entry, total, fps) ==
    LET frame_data == entry.frame
        location == entry.location
    IN IF contains(frame_data, "-")
       THEN LET start == range_start(frame_data)
                end == range_end(frame_data)
                timecode == frame_to_timecode(start, fps) \o <<" ", "-", " ">>
                            \o frame_to_timecode(end, fps)
            IN IF start <= total /\ end <= total
               THEN [fix |-> <<<<location, frame_data, timecode>>>>, not_used |-> <<>>]
               ELSE [fix |-> <<>>, not_used |-> <<<<location, frame_data, timecode>>>>]
       ELSE IF to_int(frame_data) <= total
            THEN [fix |-> <<>>,
                  not_used |-> <<<<location, frame_data,
                                   frame_to_timecode(to_int(frame_data), fps)>>>>]
            ELSE [fix |-> <<>>, not_used |-> <<>>]

entry_rows(entry, total, fps) ==
    LET frame_data == entry.frame
        location == entry.location
    IN IF contains(frame_data, "-")
       THEN LET start == range_start(frame_data)
                end == range_end(frame_data)
                timecode == frame_to_timecode(start, fps) \o <<" ", "-", " ">>
                            \o frame_to_timecode(end, fps)
            IN IF start <= total /\ end <= total
               THEN [fix |-> <<<<location, frame_data, timecode>>>>, not_used |-> <<>>]
               ELSE [fix |-> <<>>, not_used |-> <<<<location, frame_data, timecode>>>>]
       ELSE LET frame == to_int(frame_data)
                timecode == frame_to_timecode(frame, fps)
            IN IF frame <= total
               THEN [fix |-> <<>>, not_used |-> <<<<location, frame_data, timecode>>>>]
               ELSE [fix |-> <<>>, not_used |-> <<<<location, frame_data, timecode>>>>]

-----------------------------------------------------------------------------
\* Inputs.

XytechA == 
    <<"/", "h", "p", "s", "a", "n", "s", "1", "/", "p", "r", "o", "d", "u", "c", "t",
    "i", "o", "n", "/", "a">>
XytechB == 
    <<"/", "h", "p", "s", "a", "n", "s", "2", "2", "/", "p", "r", "o", "d", "u", "c",
    "t", "i", "o", "n", "/", "b">>
XytechNoDigits == 
    <<"/", "h", "p", "s", "a", "n", "s", "/", "p", "r", "o", "d", "u", "c", "t", "i",
    "o", "n", "/", "b">>
XytechA2 == 
    <<"/", "h", "p", "s", "a", "n", "s", "2", "/", "p", "r", "o", "d", "u", "c", "t",
    "i", "o", "n", "/", "a">>

XytechJob == <<"J", "o", "b", ":", " ", "j", "1">>

\* the lines of the xytech files read
XytechFiles ==
    { <<XytechJob, XytechA, <<>>, XytechB>>,
      <<XytechA, XytechNoDigits, XytechA2>> }

PathA == 
    <<"/", "b", "a", "s", "e", "l", "i", "g", "h", "t", "f", "i", "l", "e", "s", "y",
    "s", "t", "e", "m", "1", "/", "a">>
PathB == 
    <<"/", "b", "a", "s", "e", "l", "i", "g", "h", "t", "f", "i", "l", "e", "s", "y",
    "s", "t", "e", "m", "1", "/", "b">>
PathX == 
    <<"/", "x", "/", "b", "a", "s", "e", "l", "i", "g", "h", "t", "f", "i", "l", "e",
    "s", "y", "s", "t", "e", "m", "1", "/", "a">>

\* the string of n characters c
RECURSIVE repeat(_, _)
repeat(c, n) ==
    IF n = 0 THEN <<>>
    ELSE LET half == repeat(c, n \div 2)
         IN IF n % 2 = 0 THEN half \o half ELSE Append(half \o half, c)

\* a token of ASCII digits one longer than int() converts
LongDigits == repeat("1", int_max_str_digits + 1)

\* the lines a baselight file is made of, each already split at whitespace
BaselightLines ==
    { <<PathA, <<"9">>, <<"1", "0">>, <<"1", "1">>, <<"1", "3">>>>,
      <<PathB, <<"1", "0">>, <<"x">>, <<"1", "1">>>>,
      <<PathX, <<"9">>, <<"²">>, <<"1", "3">>>>,
      <<PathA, <<"0", "1", "0">>, <<"1", "2">>>>,
      <<PathB, <<"1", "2">>, <<"1", "3">>>>,
      <<PathB, <<"1", "0">>, <<"1", "²">>>>,
      <<PathA, <<"1", "1">>, LongDigits>>,
      <<>> }

BaselightFiles(max) == UNION { [1..n -> BaselightLines] : n \in 0..max }

\* what ffprobe prints: nothing float() reads, nan/inf, or a duration in
\* 64ths of a second
ProbeOutputs ==
    { [kind |-> k, sixty_fourths |-> 0] : k \in {"not_a_float", "not_finite"} }
    \cup { [kind |-> "number", sixty_fourths |-> n] : n \in {-27, 0, 27, 30, 35} }

TcFrames == (0..MaxTcFrame) \cup {1439, 1440, 86399, 86400, 8640000}
TcFps == {1, 24, 25, 30}

-----------------------------------------------------------------------------
\* The state machine.

Init ==
    /\ pc = "start"
    /\ baselight_collection = <<>>
    /\ location_map = EmptyMap
    /\ in_xytech = <<>>
    /\ in_lines = <<>>
    /\ frames_locations = EmptyMap
    /\ emitted = <<>>
    /\ probe = <<>>
    /\ total_frames = <<>>
    /\ entries = <<>>
    /\ idx = 1
    /\ ws_frames_to_fix = <<>>
    /\ ws_not_used = <<>>
    /\ thumbnails = <<>>
    /\ snippets = <<>>
    /\ tc_frame = 0
    /\ tc_fps = DefaultFps
    /\ tc_out = <<>>

\* main up to the report: process_xytech_file(xytech), then
\* process_baselight_file(lines, its result); what the run leaves behind.
main_ingest(xytech, lines) ==
    LET lmap == process_xytech_file(xytech)
        st == read_lines(lines, Len(lines), lmap)
        done == process_baselight_file(lines, lmap)
    IN [location_map |-> lmap,
        raised |-> done.raised,
        frames_locations |-> IF st.raised THEN EmptyMap ELSE st.fl,
        records |-> done.records]

\* the outcomes of main_ingest over every xytech file of XytechFiles and every
\* baselight file of up to MaxLines lines
IngestOutcomes ==
    { main_ingest(xytech, lines) :
        xytech \in XytechFiles, lines \in BaselightFiles(MaxLines) }

\* the state a run of main_ingest with outcome r leaves
Ingested(r) ==
    /\ location_map' = r.location_map
    /\ frames_locations' = r.frames_locations
    /\ emitted' = r.records
    /\ baselight_collection' = baselight_collection \o r.records
    /\ pc' = IF r.raised THEN "ingest_failed" ELSE "ingested"

\* A run of main on some xytech and baselight files.
Ingest ==
    /\ pc = "start"
    /\ \E r \in IngestOutcomes :
         /\ Len(baselight_collection) + Len(r.records) <= MaxStore
         /\ Ingested(r)
    /\ UNCHANGED <<input_vars, report_vars, tc_vars>>

\* main returns without --process/--outputXLS, or ended on the ValueError of
\* int(frame): the run ends, the store stays.
Exit ==
    /\ pc \in {"ingested", "ingest_failed"}
    /\ pc' = "start"
    /\ location_map' = EmptyMap
    /\ frames_locations' = EmptyMap
    /\ emitted' = <<>>
    /\ UNCHANGED <<baselight_collection, input_vars, report_vars, tc_vars>>

\* filter_and_write_xls_and_snippets up to the loop: the probe (float() raises
\* in get_video_length, or int() of nan/inf raises on the next line), total_frames,
\* the sheets and the entries read from the store; with no entries, the save.
StartReport ==
    /\ pc = "ingested"
    /\ \E out \in ProbeOutputs :
         LET video_length == get_video_length(out)
         IN /\ probe' = <<out>>
            /\ IF video_length.raised \/ ~video_length.finite
               THEN /\ pc' = "probe_failed"
                    /\ UNCHANGED <<total_frames, entries>>
               ELSE /\ total_frames' = <<total_frames_of(video_length, DefaultFps)>>
                    /\ entries' = baselight_collection
                    /\ pc' = IF Len(baselight_collection) = 0 THEN "saved" ELSE "report"
    /\ location_map' = EmptyMap
    /\ frames_locations' = EmptyMap
    /\ emitted' = <<>>
    /\ UNCHANGED <<baselight_collection, input_vars, idx, ws_frames_to_fix, ws_not_used,
                   thumbnails, snippets, tc_vars>>

\* One iteration of the loop over entries; after the last one, wb.save.
\* The sheets hold the data rows only (the header rows written before the loop
\* are the same in every run).
\* thumb_written: the thumbnail file exists after generate_thumbnail, so that
\* OpenpyxlImage(thumbnail_path) can open it; clip_ok: the snippet ffmpeg's outcome.
ProcessEntry ==
    /\ pc = "report"
    /\ idx <= Len(entries)
    /\ \E thumb_written \in BOOLEAN, clip_ok \in BOOLEAN :
         LET entry == entries[idx]
             rows == entry_rows(entry, total_frames[1], DefaultFps)
             start == range_start(entry.frame)
             end == range_end(entry.frame)
             done == IF idx = Len(entries) THEN "saved" ELSE "report"
         IN /\ ws_frames_to_fix' = ws_frames_to_fix \o rows.fix
            /\ ws_not_used' = ws_not_used \o rows.not_used
            /\ IF Len(rows.fix) > 0
               THEN /\ thumbnails' = Append(thumbnails,
                          [frame |-> (start + end) \div 2, start |-> start,
                           end |-> end, written |-> thumb_written])
                    /\ IF thumb_written
                       THEN /\ snippets' = Append(snippets,
                                  [start |-> start, end |-> end,
                                   fps |-> DefaultFps, ok |-> clip_ok])
                            /\ idx' = idx + 1
                            /\ pc' = done
                       ELSE /\ pc' = "aborted"
                            /\ UNCHANGED <<snippets, idx>>
               ELSE /\ idx' = idx + 1
                    /\ pc' = done
                    /\ UNCHANGED <<thumbnails, snippets>>
    /\ UNCHANGED <<baselight_collection, ingest_vars, input_vars, probe, total_frames,
                   entries, tc_vars>>

Next == Ingest \/ Exit \/ StartReport \/ ProcessEntry

Spec == Init /\ [][Next]_vars

\* One run of main on given files, the inputs kept in the state:
\* every xytech file of XytechFiles with every baselight file of up to
\* MaxMergeLines lines.
InitMerge ==
    /\ pc = "start"
    /\ baselight_collection = <<>>
    /\ location_map = EmptyMap
    /\ in_xytech \in XytechFiles
    /\ in_lines \in BaselightFiles(MaxMergeLines)
    /\ frames_locations = EmptyMap
    /\ emitted = <<>>
    /\ probe = <<>>
    /\ total_frames = <<>>
    /\ entries = <<>>
    /\ idx = 1
    /\ ws_frames_to_fix = <<>>
    /\ ws_not_used = <<>>
    /\ thumbnails = <<>>
    /\ snippets = <<>>
    /\ tc_frame = 0
    /\ tc_fps = DefaultFps
    /\ tc_out = <<>>

IngestGiven ==
    /\ pc = "start"
    /\ Ingested(main_ingest(in_xytech, in_lines))
    /\ UNCHANGED <<input_vars, report_vars, tc_vars>>

NextMerge == IngestGiven

SpecMerge == InitMerge /\ [][NextMerge]_vars

\* frame_to_timecode on its own: every frame and fps of TcFrames x TcFps.
InitTimecode ==
    /\ pc = "start"
    /\ baselight_collection = <<>>
    /\ location_map = EmptyMap
    /\ in_xytech = <<>>
    /\ in_lines = <<>>
    /\ frames_locations = EmptyMap
    /\ emitted = <<>>
    /\ probe = <<>>
    /\ total_frames = <<>>
    /\ entries = <<>>
    /\ idx = 1
    /\ ws_frames_to_fix = <<>>
    /\ ws_not_used = <<>>
    /\ thumbnails = <<>>
    /\ snippets = <<>>
    /\ tc_frame \in TcFrames
    /\ tc_fps \in TcFps
    /\ tc_out = <<>>

Convert ==
    /\ tc_out = <<>>
    /\ tc_out' = frame_to_timecode(tc_frame, tc_fps)
    /\ UNCHANGED <<pc, baselight_collection, ingest_vars, input_vars, report_vars,
                   tc_frame, tc_fps>>

NextTimecode == Convert

SpecTimecode == InitTimecode /\ [][NextTimecode]_vars

-----------------------------------------------------------------------------
\* Properties.

\* first and last frame a stored record covers, read back from its frame field
RecStart(r) == IF contains(r.frame, "-") THEN range_start(r.frame) ELSE to_int(r.frame)
RecEnd(r) == IF contains(r.frame, "-") THEN range_end(r.frame) ELSE to_int(r.frame)

\* the records of the last merge pass that cover frame f
Covering(f) == { i \in DOMAIN emitted : RecStart(emitted[i]) <= f /\ f <= RecEnd(emitted[i]) }

\* line number n of the baselight file read has a path whose key is in the map
Resolvable(n) ==
    /\ Len(in_lines[n]) > 0
    /\ strip_baselight(in_lines[n][1]) \in DOMAIN location_map

\* a token the loop over frame_numbers turns into a frame number
IsFrameToken(tok) == ~int_raises(tok) /\ isdigit(tok)

\* line number n of the baselight file read lists frame f as a numeric token
Lists(n, f) ==
    \E k \in 2..Len(in_lines[n]) :
        IsFrameToken(in_lines[n][k]) /\ to_int(in_lines[n][k]) = f

\* the frame numbers written on the lines of the baselight file read
ListedFrames ==
    UNION { { to_int(in_lines[n][k]) :
                k \in { k \in 2..Len(in_lines[n]) : IsFrameToken(in_lines[n][k]) } } :
            n \in DOMAIN in_lines }

\* line number n has a token that passes isdigit() and that int() rejects
HasBadToken(n) ==
    \E k \in 2..Len(in_lines[n]) :
        int_raises(in_lines[n][k]) /\ isdigit(in_lines[n][k])

\* C1 (merge maximality): no two records emitted by one merge pass have the
\* same location and are numerically adjacent (A.end + 1 = B.start).
C1_MergeMaximality ==
    \A i, j \in DOMAIN emitted :
        (i # j /\ emitted[i].location = emitted[j].location)
            => RecEnd(emitted[i]) + 1 # RecStart(emitted[j])

\* C1 witness: a merge pass emitted a merged range and, right after it, a
\* record of another location that starts at the next frame.
C1_Witness ==
    \E i, j \in DOMAIN emitted :
        /\ RecStart(emitted[i]) < RecEnd(emitted[i])
        /\ RecEnd(emitted[i]) + 1 = RecStart(emitted[j])
        /\ emitted[i].location # emitted[j].location

\* C2 (merge exactness): the emitted records partition the annotated frames:
\* every annotated frame is in exactly one record, every frame of a record is
\* annotated and mapped to the record's location, and a record is written as
\* the number when start = end and as "start-end" with start < end otherwise;
\* frames 9,10,11,13 under one location give exactly "9-11" and "13".
C2_MergeExactness ==
    /\ \A f \in DOMAIN frames_locations : Cardinality(Covering(f)) = 1
    /\ \A i \in DOMAIN emitted :
         LET s == RecStart(emitted[i])
             e == RecEnd(emitted[i])
         IN /\ s <= e
            /\ \A f \in s..e :
                 f \in DOMAIN frames_locations
                 /\ frames_locations[f] = emitted[i].location
            /\ emitted[i].frame =
                 IF s = e THEN to_str(s) ELSE to_str(s) \o <<"-">> \o to_str(e)
            /\ contains(emitted[i].frame, "-") <=> s < e
    /\ (/\ DOMAIN frames_locations = {9, 10, 11, 13}
        /\ \A f \in {10, 11, 13} : frames_locations[f] = frames_locations[9])
       => /\ Len(emitted) = 2
          /\ emitted[1].frame = <<"9", "-", "1", "1">>
          /\ emitted[2].frame = <<"1", "3">>

\* C2 witness: the merge ran on frames 9,10,11,13 of one location.
C2_Witness ==
    /\ DOMAIN frames_locations = {9, 10, 11, 13}
    /\ \A f \in {10, 11, 13} : frames_locations[f] = frames_locations[9]
    /\ Len(emitted) = 2

\* rows of a sheet reduced to <<location, frame_data>>
RowKeys(ws) == [k \in DOMAIN ws |-> <<ws[k][1], ws[k][2]>>]
RecKeys(recs) == [k \in DOMAIN recs |-> <<recs[k].location, recs[k].frame>>]

\* the claimed rule: a range with both endpoints within the bound
IsInBoundRange(r, total) ==
    contains(r.frame, "-") /\ RecStart(r) <= total /\ RecEnd(r) <= total

InReport == pc \in {"report", "saved", "aborted"}

\* the entries whose loop iteration ran to its end
Processed == SubSeq(entries, 1, idx - 1)

\* the thumbnail and the clip the rule asks for a range record
ThumbOf(r) ==
    [frame |-> (RecStart(r) + RecEnd(r)) \div 2, start |-> RecStart(r), end |-> RecEnd(r)]
ClipOf(r) == [start |-> RecStart(r), end |-> RecEnd(r)]

\* C3 (classification rule): a processed record has a row in "Frames to Fix",
\* a thumbnail at floor((start+end)/2) and a clip iff it is a range with
\* start <= totalFrames and end <= totalFrames; every other processed record
\* (range with an endpoint above the bound, any single frame) has a row in
\* "Frames Not Used" and no thumbnail or clip. The only other row ever in
\* "Frames to Fix" is that of the in-bound range at which a run stopped.
\* With totalFrames = 100, "99-100" is in-bound and "99-101" is not.
C3_ClassificationRule ==
    /\ InReport =>
         LET total == total_frames[1]
             InB(r) == IsInBoundRange(r, total)
             OutB(r) == ~IsInBoundRange(r, total)
             inb == SelectSeq(Processed, InB)
             stopped == IF pc = "aborted" THEN <<entries[idx]>> ELSE <<>>
         IN /\ RowKeys(ws_not_used) = RecKeys(SelectSeq(Processed, OutB))
            /\ RowKeys(ws_frames_to_fix) = RecKeys(inb \o stopped)
            /\ \A r \in { stopped[k] : k \in DOMAIN stopped } : InB(r)
            /\ [k \in DOMAIN thumbnails |->
                   [frame |-> thumbnails[k].frame, start |-> thumbnails[k].start,
                    end |-> thumbnails[k].end]]
               = [k \in DOMAIN (inb \o stopped) |-> ThumbOf((inb \o stopped)[k])]
            /\ [k \in DOMAIN snippets |->
                   [start |-> snippets[k].start, end |-> snippets[k].end]]
               = [k \in DOMAIN inb |-> ClipOf(inb[k])]
    /\ LET r1 == [location |-> PathA, frame |-> <<"9", "9", "-", "1", "0", "0">>]
           r2 == [location |-> PathA, frame |-> <<"9", "9", "-", "1", "0", "1">>]
           r3 == [location |-> PathA, frame |-> <<"9", "9">>]
       IN /\ Len(entry_rows(r1, 100, DefaultFps).fix) = 1
          /\ Len(entry_rows(r1, 100, DefaultFps).not_used) = 0
          /\ Len(entry_rows(r2, 100, DefaultFps).fix) = 0
          /\ Len(entry_rows(r2, 100, DefaultFps).not_used) = 1
          /\ Len(entry_rows(r3, 100, DefaultFps).fix) = 0
          /\ Len(entry_rows(r3, 100, DefaultFps).not_used) = 1

\* C3 witness: a saved report with an in-bound range in "Frames to Fix" and,
\* in "Frames Not Used", a range above the bound and a single frame within it.
C3_Witness ==
    /\ pc = "saved"
    /\ Len(ws_frames_to_fix) > 0
    /\ Len(thumbnails) > 0
    /\ Len(snippets) > 0
    /\ \E k \in DOMAIN ws_not_used : contains(ws_not_used[k][2], "-")
    /\ \E k \in DOMAIN ws_not_used :
         /\ ~contains(ws_not_used[k][2], "-")
         /\ to_int(ws_not_used[k][2]) <= total_frames[1]

\* how often key x occurs in the sequence of keys
Count(keys, x) == Cardinality({ k \in DOMAIN keys : keys[k] = x })

\* C4 (classification totality): when the report is saved, every record read
\* from the store has exactly one row, in exactly one of the two sheets; and
\* while the loop runs, every processed record has exactly one row.
C4_ClassificationTotality ==
    (pc \in {"report", "saved"}) =>
        LET fix == RowKeys(ws_frames_to_fix)
            unused == RowKeys(ws_not_used)
            recs == RecKeys(Processed)
        IN /\ pc = "saved" => Len(Processed) = Len(entries)
           /\ Len(fix) + Len(unused) = Len(recs)
           /\ \A k \in DOMAIN recs :
                /\ Count(fix, recs[k]) + Count(unused, recs[k]) = Count(recs, recs[k])
                /\ Count(fix, recs[k]) = 0 \/ Count(unused, recs[k]) = 0

\* C4 witness: a saved report over three records, with rows in both sheets,
\* one of them a single frame above the bound.
C4_Witness ==
    /\ pc = "saved"
    /\ Len(entries) = 3
    /\ Len(ws_frames_to_fix) > 0
    /\ \E k \in DOMAIN ws_not_used :
         /\ ~contains(ws_not_used[k][2], "-")
         /\ to_int(ws_not_used[k][2]) > total_frames[1]

\* C5 (artifact failure is non-fatal), as claimed: when a thumbnail was not
\* produced or a clip extraction failed, the report goes on and is saved.
C5_ArtifactFailureNonFatal ==
    ((\E k \in DOMAIN thumbnails : ~thumbnails[k].written)
     \/ (\E k \in DOMAIN snippets : ~snippets[k].ok))
        => pc \in {"report", "saved"}

\* C6 (probe failure is fatal): when ffprobe gave no numeric duration, the
\* report stops there: total_frames is never set (not even to 0), no entry is
\* read or classified, no row, thumbnail or clip is produced, nothing is saved.
C6_ProbeFailureFatal ==
    /\ (probe # <<>> /\ probe[1].kind # "number") =>
          /\ pc = "probe_failed"
          /\ total_frames = <<>>
          /\ entries = <<>>
          /\ ws_frames_to_fix = <<>>
          /\ ws_not_used = <<>>
          /\ thumbnails = <<>>
          /\ snippets = <<>>
    /\ pc = "probe_failed" => (probe # <<>> /\ probe[1].kind # "number")

\* C6 witness: the probe printed nothing float() reads, with records in the
\* store.
C6_Witness ==
    /\ pc = "probe_failed"
    /\ Len(baselight_collection) > 1
    /\ probe[1].kind = "not_a_float"

\* C7 (report ordering), as claimed: the records the report has processed are
\* in ascending start-frame order, whatever ingest runs filled the store.
C7_ReportAscending ==
    InReport =>
        \A i, j \in 1..(idx - 1) :
            i < j => RecStart(entries[i]) <= RecStart(entries[j])

\* C8 (traceability and silent drop): every emitted record's location is a
\* value of the location map; a line with an unresolvable path puts no frame
\* in any record and raises nothing, whatever its tokens (a run only fails on
\* a token of a line with a resolvable path); and the other lines are still
\* processed: in a run that completed, every frame listed on a line with a
\* resolvable path is in a record.
C8_Traceability ==
    /\ \A i \in DOMAIN emitted :
         \E key \in DOMAIN location_map : location_map[key] = emitted[i].location
    /\ \A f \in ListedFrames :
         (Covering(f) # {}) =>
            (\E n \in DOMAIN in_lines : Resolvable(n) /\ Lists(n, f))
    /\ \A i \in DOMAIN emitted :
         \A f \in RecStart(emitted[i])..RecEnd(emitted[i]) : f \in ListedFrames
    /\ pc = "ingest_failed" =>
         \E n \in DOMAIN in_lines : Resolvable(n) /\ HasBadToken(n)
    /\ pc = "ingested" =>
         /\ \A n \in DOMAIN in_lines : ~(Resolvable(n) /\ HasBadToken(n))
         /\ \A f \in ListedFrames :
              (\E n \in DOMAIN in_lines : Resolvable(n) /\ Lists(n, f))
                 => Covering(f) # {}

\* C8 witness: a line with an unresolvable path lists a frame no other line
\* lists and a token int() rejects, a later line is resolvable, and the run
\* completed with records that leave that frame out.
C8_Witness ==
    \E n, m \in DOMAIN in_lines :
        /\ pc = "ingested"
        /\ n < m
        /\ ~Resolvable(n)
        /\ HasBadToken(n)
        /\ Resolvable(m)
        /\ Len(emitted) > 0
        /\ \E f \in ListedFrames : Lists(n, f) /\ Covering(f) = {}

\* the last resolvable line that lists frame f
LastLine(f) ==
    CHOOSE n \in DOMAIN in_lines :
        /\ Resolvable(n) /\ Lists(n, f)
        /\ \A m \in DOMAIN in_lines : (Resolvable(m) /\ Lists(m, f)) => m <= n

\* a frame listed on several lines, one of them at least with a resolvable path
Duplicated(f) ==
    /\ Cardinality({ n \in DOMAIN in_lines : Lists(n, f) }) > 1
    /\ \E n \in DOMAIN in_lines : Resolvable(n) /\ Lists(n, f)

\* C10 (last write wins), as claimed: once main has run on a file that lists
\* a frame on several lines, no error occurred and the frame is in exactly one
\* emitted record, whose location is the one resolved for the last line that
\* lists the frame and has a resolvable path.
C10_LastWriteWins ==
    pc \in {"ingested", "ingest_failed"} =>
    \A f \in { f \in ListedFrames : Duplicated(f) } :
        LET loc == location_map[strip_baselight(in_lines[LastLine(f)][1])]
        IN /\ pc = "ingested"
           /\ Cardinality(Covering(f)) = 1
           /\ \A i \in Covering(f) : emitted[i].location = loc

\* what does hold of duplicates: in a run that completed, the frame is in
\* exactly one record, with the location of the last resolvable line listing it
LastWriteWinsWhenCompleted ==
    pc = "ingested" =>
    \A f \in { f \in ListedFrames : Duplicated(f) } :
        LET loc == location_map[strip_baselight(in_lines[LastLine(f)][1])]
        IN /\ f \in DOMAIN frames_locations
           /\ frames_locations[f] = loc
           /\ Cardinality(Covering(f)) = 1
           /\ \A i \in Covering(f) : emitted[i].location = loc

\* a completed run where the last write won over an earlier line and a later
\* unresolvable line changed nothing
LastWriteWinsCase ==
    /\ pc = "ingested"
    /\ \E f \in ListedFrames : \E n, m, u \in DOMAIN in_lines :
        /\ n < m /\ m < u
        /\ Resolvable(n) /\ Lists(n, f)
        /\ Resolvable(m) /\ Lists(m, f)
        /\ ~Resolvable(u) /\ Lists(u, f)
        /\ location_map[strip_baselight(in_lines[n][1])]
             # location_map[strip_baselight(in_lines[m][1])]
        /\ \E i \in Covering(f) :
             emitted[i].location = location_map[strip_baselight(in_lines[m][1])]

\* the four fields of a timecode string, read back as numbers
TcFields(tc) == [k \in 1..Len(split(tc, ":")) |-> to_int(split(tc, ":")[k])]

\* C9 (timecode conversion): the four fields are hours = frame div (fps*3600),
\* minutes = (frame div (fps*60)) mod 60, seconds = (frame div fps) mod 60,
\* frames = frame mod fps; so minutes < 60, seconds < 60, frames < fps and
\* ((hours*60 + minutes)*60 + seconds)*fps + frames = frame, hours unwrapped.
\* At fps 24: 0 -> 00:00:00:00, 24 -> 00:00:01:00, 86400 -> 01:00:00:00.
C9_TimecodeConversion ==
    tc_out # <<>> =>
        LET fld == TcFields(tc_out)
        IN /\ Len(fld) = 4
           /\ \A k \in 1..4 : Len(split(tc_out, ":")[k]) >= 2
           /\ fld[1] = tc_frame \div (tc_fps * 3600)
           /\ fld[2] = (tc_frame \div (tc_fps * 60)) % 60
           /\ fld[3] = (tc_frame \div tc_fps) % 60
           /\ fld[4] = tc_frame % tc_fps
           /\ fld[2] < 60 /\ fld[3] < 60 /\ fld[4] < tc_fps
           /\ ((fld[1] * 60 + fld[2]) * 60 + fld[3]) * tc_fps + fld[4] = tc_frame
           /\ (tc_fps = 24 /\ tc_frame = 0) => tc_out = 
                <<"0", "0", ":", "0", "0", ":", "0", "0", ":", "0", "0">>
           /\ (tc_fps = 24 /\ tc_frame = 24) => tc_out = 
                <<"0", "0", ":", "0", "0", ":", "0", "1", ":", "0", "0">>
           /\ (tc_fps = 24 /\ tc_frame = 86400) => tc_out = 
                <<"0", "1", ":", "0", "0", ":", "0", "0", ":", "0", "0">>

\* C9 witness: frame 8640000 at fps 24 was converted, to 100 hours.
C9_Witness ==
    /\ tc_frame = 8640000
    /\ tc_fps = 24
    /\ tc_out = 
                <<"1", "0", "0", ":", "0", "0", ":", "0", "0", ":", "0", "0">>

====
